---------------------------- MODULE Spec2Model ----------------------------
(***************************************************************************)
(* State-machine model of the SmartPDF front end: the QueryInput component *)
(* (frontend/src/components/QueryInput.jsx, lines 219-732) as rendered by  *)
(* a React 18 root, its parent Home (frontend/src/pages/Home.jsx) and, in  *)
(* sections of their own, the two earlier versions of the component        *)
(* (QueryInput.jsx lines 1-217, unnamed/part_001).                         *)
(* Every event handler and every continuation after an                     *)
(* await is one atomic step; state updates made in a step are batched, the *)
(* component is re-rendered and its effects are run before the next step.  *)
(* Text is a sequence of one-character strings so that String.trim() and   *)
(* Array.slice() are computed, not assumed.                                *)
(***************************************************************************)
EXTENDS Integers, Sequences, FiniteSets, TLC

VARIABLES
    query,              \* useState("")
    textareaValue,      \* the text in the textarea (value={query}, line 593)
    conversations,      \* useState([])            the conversation log
    loading,            \* useState(false)
    pdfFiles,           \* useState([])
    selectedPdf,        \* useState("")
    error,              \* useState(null)
    isNewConversation,  \* useState(true)
    isFetchingPdfs,     \* useState(false)
    showPdfViewer,      \* useState(false)
    currentPage,        \* useState(1)
    showPagePrompt,     \* useState(false)
    foundPages,         \* useState([])
    aborted,            \* abortController.current.signal.aborted
    mounted,            \* the component is mounted
    analysisResults,    \* useState(null)
    isAnalyzing,        \* useState(false)
    activeAnalysisTab,  \* useState("topics")
    analyzeReqs,        \* POST /api/analyze requests awaiting their outcome
    inHome,             \* the component is the child of Home (Home.jsx:45)
    homeSelectedPdf,    \* Home: useState('')
    backgroundImage,    \* Home: useState('/Pbackground.png')
    isCustomImage,      \* Home: useState(false)
    bgReqs,             \* GET /api/background-image requests awaiting
                        \* their outcome, oldest first
    result,             \* earliest version (unnamed/part_001:5): useState(null)
    queryReqs,          \* POST /api/query requests awaiting their outcome
    listFetches,        \* GET /api/pdf-files requests awaiting their outcome:
                        \* how many of them for each selectedPdf their
                        \* fetchPdfFiles closure holds
    last                \* history variable: the step taken last

vars == <<query, textareaValue, conversations, loading, pdfFiles,
          selectedPdf, error, isNewConversation, isFetchingPdfs,
          showPdfViewer, currentPage, showPagePrompt, foundPages, aborted,
          mounted, analysisResults, isAnalyzing, activeAnalysisTab,
          analyzeReqs, inHome, homeSelectedPdf, backgroundImage,
          isCustomImage, bgReqs, result, queryReqs, listFetches, last>>

\* the state of the document analysis, lines 240-242 and 373-398
analysisVars == <<analysisResults, isAnalyzing, activeAnalysisTab,
                  analyzeReqs>>

\* the state of the parent, Home.jsx lines 5-7
homeVars == <<inHome, homeSelectedPdf, backgroundImage, isCustomImage,
              bgReqs>>

-----------------------------------------------------------------------------
(* Bounds of the model *)

\* no submission is started once the log holds this many turns
MaxTurns == 4
\* no step starts a further document-list fetch beyond this many pending
MaxListFetches == 1
\* the same for the specification with the document analysis
MaxAnalyzeTurns == 1
\* the same for the specification with fairness
MaxLiveTurns == 3
\* the same two bounds for the specification of overlapping list fetches
MaxListTurns == 1
MaxOverlap == 2
\* no step starts a further background-image fetch beyond this many pending
MaxBackgroundFetches == 2
\* no submission of the earlier version is started once the log holds
\* this many turns
MaxEarlierTurns == 2
\* no query request of the earliest version is started beyond this many
\* pending
MaxEarliestReqs == 2

-----------------------------------------------------------------------------
(* Values *)

null == "<null>"

\* the analysis buttons modelled (lines 641-655) and what the server
\* answers: the analysis of the document named in the request
AnalysisTypes == {"topics", "entities"}
nullAnalysis == [pdf_name |-> null, analysis_type |-> null]
\* useState(null) of the earliest version, unnamed/part_001 line 5
nullResult == [query |-> null, response |-> null, error |-> null]

\* the documents GET /api/pdf-files lists
ServerPdfFiles == <<"A.pdf", "B.pdf">>

\* values the textarea can be given: empty, blank, and two queries
QueryTexts == { <<>>, <<" ">>, <<"a">>, <<" ", "b">> }

IsWhitespace(c) == c \in {" ", "\t", "\n"}

\* bodies POST /api/query answers with on success
QueryResponses ==
    { [response |-> <<"r">>, has_location |-> FALSE, pages |-> <<>>],
      [response |-> <<"r">>, has_location |-> TRUE,  pages |-> <<>>],
      [response |-> <<"r">>, has_location |-> FALSE, pages |-> <<[page |-> 9]>>],
      [response |-> <<"see page 4">>, has_location |-> TRUE,
       pages |-> <<[page |-> 4], [page |-> 7]>>],
      [response |-> <<"see page 9">>, has_location |-> TRUE,
       pages |-> <<[page |-> 9]>>] }

QueryFailures == {"network", "non2xx"}

-----------------------------------------------------------------------------
(* Pure functions *)

RECURSIVE TrimStart(_)
TrimStart(s) ==
    IF s = <<>> THEN s
    ELSE IF IsWhitespace(Head(s)) THEN TrimStart(Tail(s)) ELSE s

RECURSIVE TrimEnd(_)
TrimEnd(s) ==
    IF s = <<>> THEN s
    ELSE IF IsWhitespace(s[Len(s)]) THEN TrimEnd(SubSeq(s, 1, Len(s) - 1))
    ELSE s

\* String.prototype.trim
Trim(s) == TrimEnd(TrimStart(s))

\* relative index of Array.prototype.slice: negative counts from the end
RelIndex(k, len) == IF k < 0 THEN (IF len + k < 0 THEN 0 ELSE len + k)
                    ELSE (IF k > len THEN len ELSE k)

\* Array.prototype.slice(start, end), 0-based, end exclusive
Slice(s, start, end) ==
    SubSeq(s, RelIndex(start, Len(s)) + 1, RelIndex(end, Len(s)))

\* Array.prototype.slice(start)
SliceFrom(s, start) == Slice(s, start, Len(s))

\* String.prototype.toLowerCase on the replies the buttons pass
ToLowerCase(s) ==
    CASE s = "Yes" -> "yes"
      [] s = "YES" -> "yes"
      [] s = "No"  -> "no"
      [] OTHER     -> s

\* A turn.  role, content and isPagePrompt are the fields of the object in
\* the code; pdf and kind are history fields: the pdf_name of the request
\* the turn comes from and the step that made it.
Turn(role, content, isPagePrompt, pdf, kind) ==
    [role |-> role, content |-> content, isPagePrompt |-> isPagePrompt,
     pdf |-> pdf, kind |-> kind]


HumanTurn(content, pdf, kind) == Turn("human", content, FALSE, pdf, kind)

AiTurn(content, pdf, kind) == Turn("ai", content, FALSE, pdf, kind)

\* { role: "ai", content: "Do you want me to take you to that page?",
\*   isPagePrompt: true }
PagePromptTurn(pdf) ==
    Turn("ai", <<"Do you want me to take you to that page?">>, TRUE, pdf,
         "offer")

\* the history variable: the step taken and the length of the log before it
Step(op) == [op |-> op, n |-> Len(conversations)]

-----------------------------------------------------------------------------
(* The effect of lines 274-277.  fetchPdfFiles is re-created when           *)
(* selectedPdf changes (useCallback dependencies, line 272); the effect     *)
(* then runs its cleanup, abortController.current.abort(), and calls the    *)
(* new fetchPdfFiles, which sets isFetchingPdfs and clears error before it  *)
(* awaits the fetch.  newSel, err, fetching and fetches are the values the  *)
(* step leaves before the effect runs.                                      *)

fetchPdfFilesEffect(newSel, err, fetching, fetches) ==
    IF newSel # selectedPdf
    THEN /\ aborted' = TRUE
         /\ isFetchingPdfs' = TRUE
         /\ error' = null
         /\ listFetches' = [fetches EXCEPT ![newSel] = @ + 1]
    ELSE /\ aborted' = aborted
         /\ isFetchingPdfs' = fetching
         /\ error' = err
         /\ listFetches' = fetches

\* Home.jsx line 5
DefaultBackground == <<"/Pbackground.png">>

\* onPdfSelect of the props.  In Home it is setSelectedPdf (Home.jsx:45),
\* and the effect of Home.jsx lines 9-13 calls fetchBackgroundImage when the
\* value changes to a non-empty one.
onPdfSelect(newSelectedPdf) ==
    IF inHome
    THEN /\ homeSelectedPdf' = newSelectedPdf
         /\ bgReqs' = IF newSelectedPdf # homeSelectedPdf
                         /\ newSelectedPdf # ""
                      THEN Append(bgReqs, newSelectedPdf) ELSE bgReqs
         /\ UNCHANGED <<inHome, backgroundImage, isCustomImage>>
    ELSE UNCHANGED homeVars

\* the values selectedPdf takes
PdfNames == {""} \cup {ServerPdfFiles[j] : j \in 1..Len(ServerPdfFiles)}

RECURSIVE SumOver(_, _)
SumOver(f, S) ==
    IF S = {} THEN 0
    ELSE LET x == CHOOSE y \in S : TRUE IN f[x] + SumOver(f, S \ {x})

\* the number of list fetches awaiting their outcome
pendingListFetches == SumOver(listFetches, PdfNames)

\* a step may start a further list fetch
MayFetch == pendingListFetches < MaxListFetches

\* the same for the specification of overlapping list fetches
MayOverlap == pendingListFetches < MaxOverlap

\* History only: the requests pending when a document is selected, the
\* conversation is reset or the component is torn down are the cancelled
\* ones of the specification (sections 4.1 and 5).  The code has no
\* counterpart: no fetch is passed abortController.current.signal.
cancelRequests(reqs) ==
    [i \in 1..Len(reqs) |-> [reqs[i] EXCEPT !.cancelled = TRUE]]

-----------------------------------------------------------------------------
(* Initial state: the component is mounted and the effect has called        *)
(* fetchPdfFiles once.                                                      *)

mountedIn(parent) ==
    /\ query = <<>>
    /\ textareaValue = <<>>
    /\ conversations = <<>>
    /\ loading = FALSE
    /\ pdfFiles = <<>>
    /\ selectedPdf = ""
    /\ error = null
    /\ isNewConversation = TRUE
    /\ isFetchingPdfs = TRUE
    /\ showPdfViewer = FALSE
    /\ currentPage = 1
    /\ showPagePrompt = FALSE
    /\ foundPages = <<>>
    /\ aborted = FALSE
    /\ mounted = TRUE
    /\ analysisResults = nullAnalysis
    /\ isAnalyzing = FALSE
    /\ activeAnalysisTab = "topics"
    /\ analyzeReqs = <<>>
    /\ queryReqs = <<>>
    /\ listFetches = [p \in PdfNames |-> IF p = "" THEN 1 ELSE 0]
    /\ last = [op |-> "mount", n |-> 0]
    /\ inHome = parent
    /\ homeSelectedPdf = ""
    /\ backgroundImage = DefaultBackground
    /\ isCustomImage = FALSE
    /\ bgReqs = <<>>
    /\ result = nullResult

\* QueryInput on its own: the parent's state is left out (QueryInput reads
\* none of it but the isCustomImage prop, which marks an option, line 584)
Init == mountedIn(FALSE)

\* QueryInput as the child of Home
InitHome == mountedIn(TRUE)

-----------------------------------------------------------------------------
(* GET /api/pdf-files, lines 252-272 *)

RemoveAt(s, i) == SubSeq(s, 1, i - 1) \o SubSeq(s, i + 1, Len(s))

\* the continuation after a successful fetch: lines 258-263 and 270
\* (closure: the selectedPdf the fetchPdfFiles closure of the request holds)
fetchPdfFilesSuccess(closure) ==
    /\ closure \in PdfNames
    /\ listFetches[closure] > 0
    /\ LET data    == [pdf_files |-> ServerPdfFiles]
           rest    == [listFetches EXCEPT ![closure] = @ - 1]
           autoSel == Len(data.pdf_files) > 0 /\ closure = ""
           newSel  == IF autoSel THEN data.pdf_files[1] ELSE selectedPdf
       IN IF mounted
          THEN /\ pdfFiles' = data.pdf_files
               /\ selectedPdf' = newSel
               /\ IF autoSel THEN onPdfSelect(newSel)
                             ELSE UNCHANGED homeVars
               /\ fetchPdfFilesEffect(newSel, error, FALSE, rest)
          ELSE /\ listFetches' = rest
               /\ UNCHANGED <<pdfFiles, selectedPdf, aborted, isFetchingPdfs,
                              error>>
               /\ UNCHANGED homeVars
    /\ last' = Step("fetchPdfFilesSuccess")
    /\ UNCHANGED result
    /\ UNCHANGED analysisVars
    /\ UNCHANGED <<query, textareaValue,
                   conversations, loading, isNewConversation,
                   showPdfViewer, currentPage, showPagePrompt, foundPages,
                   mounted, queryReqs>>

\* the fetch rejects or answers non-2xx: lines 257, 264-270
fetchPdfFilesFailure(closure) ==
    /\ closure \in PdfNames
    /\ listFetches[closure] > 0
    /\ listFetches' = [listFetches EXCEPT ![closure] = @ - 1]
    /\ IF mounted
       THEN /\ error' = "Failed to fetch PDF files. Please try again later."
            /\ isFetchingPdfs' = FALSE
       ELSE UNCHANGED <<error, isFetchingPdfs>>
    /\ last' = Step("fetchPdfFilesFailure")
    /\ UNCHANGED result
    /\ UNCHANGED homeVars
    /\ UNCHANGED analysisVars
    /\ UNCHANGED <<query, textareaValue,
                   conversations, loading, pdfFiles, selectedPdf,
                   isNewConversation, showPdfViewer, currentPage,
                   showPagePrompt, foundPages, aborted, mounted, queryReqs>>

-----------------------------------------------------------------------------
(* The textarea, lines 591-597 *)

\* a debounced onChange: the textarea shows the keystroke, the state keeps
\* an earlier text until the debounce fires
setQuery_Debounced(text) ==
    /\ mounted
    /\ text \in QueryTexts
    /\ text # textareaValue
    /\ textareaValue' = text
    /\ query' = IF query = <<>> THEN text ELSE query
    /\ last' = Step("setQuery")
    /\ UNCHANGED result
    /\ UNCHANGED homeVars
    /\ UNCHANGED analysisVars
    /\ UNCHANGED <<conversations, loading, pdfFiles, selectedPdf, error,
                   isNewConversation, isFetchingPdfs, showPdfViewer,
                   currentPage, showPagePrompt, foundPages, aborted, mounted,
                   queryReqs, listFetches>>

\* onChange={(e) => setQuery(e.target.value)}, line 594
setQuery(text) ==
    /\ mounted
    /\ text \in QueryTexts
    /\ text # query
    /\ query' = text
    /\ textareaValue' = text
    /\ last' = Step("setQuery")
    /\ UNCHANGED result
    /\ UNCHANGED homeVars
    /\ UNCHANGED analysisVars
    /\ UNCHANGED <<conversations, loading, pdfFiles, selectedPdf, error,
                   isNewConversation, isFetchingPdfs, showPdfViewer,
                   currentPage, showPagePrompt, foundPages, aborted, mounted,
                   queryReqs, listFetches>>

-----------------------------------------------------------------------------
(* Query submission, lines 280-333 *)

\* submitDisabled without the loading test
submitDisabled_NoLoading == selectedPdf = "" \/ Trim(query) = <<>>

\* disabled={loading || !selectedPdf || !query.trim()}, line 602
submitDisabled == loading \/ selectedPdf = "" \/ Trim(query) = <<>>

\* handleSubmit sending the current exchange only instead of the whole log
handleSubmit_Delta ==
    IF Trim(query) = <<>> \/ selectedPdf = ""
    THEN UNCHANGED <<loading, error, queryReqs>>
    ELSE /\ loading' = TRUE
         /\ error' = null
         /\ queryReqs' = Append(queryReqs,
              [ body |->
                  [ query |-> query,
                    pdf_name |-> selectedPdf,
                    conversation_history |->
                        IF isNewConversation THEN <<>>
                        ELSE SliceFrom(conversations, -2),
                    is_new_conversation |-> isNewConversation ],
                query |-> query,
                isNewConversation |-> isNewConversation,
                conversations |-> conversations,
                cancelled |-> FALSE ])

\* handleSubmit without the setError(null) of line 285
handleSubmit_KeepsError ==
    IF Trim(query) = <<>> \/ selectedPdf = ""
    THEN UNCHANGED <<loading, error, queryReqs>>
    ELSE /\ loading' = TRUE
         /\ error' = error
         /\ queryReqs' = Append(queryReqs,
              [ body |->
                  [ query |-> query,
                    pdf_name |-> selectedPdf,
                    conversation_history |->
                        IF isNewConversation THEN <<>> ELSE conversations,
                    is_new_conversation |-> isNewConversation ],
                query |-> query,
                isNewConversation |-> isNewConversation,
                conversations |-> conversations,
                cancelled |-> FALSE ])

\* handleSubmit without the early return of line 282
handleSubmit_NoValidation ==
    /\ loading' = TRUE
    /\ error' = null
    /\ queryReqs' = Append(queryReqs,
         [ body |->
             [ query |-> query,
               pdf_name |-> selectedPdf,
               conversation_history |->
                   IF isNewConversation THEN <<>> ELSE conversations,
               is_new_conversation |-> isNewConversation ],
           query |-> query,
           isNewConversation |-> isNewConversation,
           conversations |-> conversations,
           cancelled |-> FALSE ])

\* lines 280-299: the part of handleSubmit that runs before the await
handleSubmit ==
    IF Trim(query) = <<>> \/ selectedPdf = ""
    THEN UNCHANGED <<loading, error, queryReqs>>
    ELSE /\ loading' = TRUE
         /\ error' = null
         /\ queryReqs' = Append(queryReqs,
              [ body |->
                  [ query |-> query,
                    pdf_name |-> selectedPdf,
                    conversation_history |->
                        IF isNewConversation THEN <<>> ELSE conversations,
                    is_new_conversation |-> isNewConversation ],
                \* what the continuation reads after the await
                query |-> query,
                isNewConversation |-> isNewConversation,
                conversations |-> conversations,
                \* history field, see cancelRequests
                cancelled |-> FALSE ])

\* the user presses the submit button of the form (lines 572, 600-606); the
\* browser dispatches no submit event for a disabled button
clickSubmit ==
    /\ mounted
    /\ Len(conversations) < MaxTurns
    /\ IF submitDisabled
       THEN /\ last' = Step("submitIgnored")
            /\ UNCHANGED <<loading, error, queryReqs>>
       ELSE /\ last' = Step("handleSubmit")
            /\ handleSubmit
    /\ UNCHANGED result
    /\ UNCHANGED homeVars
    /\ UNCHANGED analysisVars
    /\ UNCHANGED <<query, textareaValue,
                   conversations, pdfFiles, selectedPdf,
                   isNewConversation, isFetchingPdfs, showPdfViewer,
                   currentPage, showPagePrompt, foundPages, aborted, mounted,
                   listFetches>>

\* a submit event of the form that does not come from the button (line 572,
\* onSubmit={handleSubmit}): handleSubmit runs and its own check of line 282
\* is the only one; dispatched here while no request is in flight
formSubmit ==
    /\ mounted
    /\ ~loading
    /\ Len(conversations) < MaxTurns
    /\ handleSubmit
    /\ last' = Step(IF Trim(query) = <<>> \/ selectedPdf = ""
                    THEN "submitRejected" ELSE "handleSubmit")
    /\ UNCHANGED result
    /\ UNCHANGED homeVars
    /\ UNCHANGED analysisVars
    /\ UNCHANGED <<query, textareaValue,
                   conversations, pdfFiles, selectedPdf,
                   isNewConversation, isFetchingPdfs, showPdfViewer,
                   currentPage, showPagePrompt, foundPages, aborted, mounted,
                   listFetches>>

\* if (data.has_location && data.pages?.length > 0), line 313
hasLocation(data) == data.has_location /\ Len(data.pages) > 0

\* updatedConversations without the assistant turn of the response
updatedConversations_NoAnswer(req, data) ==
    (IF req.isNewConversation THEN <<>> ELSE req.conversations)
    \o << HumanTurn(req.query, req.body.pdf_name, "query") >>
    \o (IF data.has_location /\ Len(data.pages) > 0
        THEN << PagePromptTurn(req.body.pdf_name) >> ELSE <<>>)

\* lines 306-321
updatedConversations(req, data) ==
    (IF req.isNewConversation THEN <<>> ELSE req.conversations)
    \o << HumanTurn(req.query, req.body.pdf_name, "query"),
          AiTurn(data.response, req.body.pdf_name, "answer") >>
    \o (IF hasLocation(data)
        THEN << PagePromptTurn(req.body.pdf_name) >> ELSE <<>>)

\* handleSubmitSuccess keeping the pages of an offer that is still open
handleSubmitSuccess_KeepsOffer(i, data) ==
    /\ i \in 1..Len(queryReqs)
    /\ data \in QueryResponses
    /\ queryReqs' = RemoveAt(queryReqs, i)
    /\ LET req == queryReqs[i]
       IN IF mounted
          THEN /\ foundPages' =
                     IF hasLocation(data) /\ ~showPagePrompt
                     THEN data.pages ELSE foundPages
               /\ showPagePrompt' =
                     IF hasLocation(data) THEN TRUE ELSE showPagePrompt
               /\ conversations' = updatedConversations(req, data)
               /\ query' = <<>>
               /\ textareaValue' = <<>>
               /\ isNewConversation' = FALSE
               /\ loading' = FALSE
          ELSE UNCHANGED <<foundPages, showPagePrompt, conversations, query,
                           textareaValue,
                           isNewConversation, loading>>
    /\ last' = Step("handleSubmitSuccess")
    /\ UNCHANGED result
    /\ UNCHANGED homeVars
    /\ UNCHANGED analysisVars
    /\ UNCHANGED <<pdfFiles, selectedPdf, error, isFetchingPdfs,
                   showPdfViewer, currentPage, aborted, mounted, listFetches>>

\* handleSubmitSuccess without the setIsNewConversation(false) of line 326
handleSubmitSuccess_StaysNew(i, data) ==
    /\ i \in 1..Len(queryReqs)
    /\ data \in QueryResponses
    /\ queryReqs' = RemoveAt(queryReqs, i)
    /\ LET req == queryReqs[i]
       IN IF mounted
          THEN /\ foundPages' =
                     IF hasLocation(data) THEN data.pages ELSE foundPages
               /\ showPagePrompt' =
                     IF hasLocation(data) THEN TRUE ELSE showPagePrompt
               /\ conversations' = updatedConversations(req, data)
               /\ query' = <<>>
               /\ textareaValue' = <<>>
               /\ loading' = FALSE
          ELSE UNCHANGED <<foundPages, showPagePrompt, conversations, query,
                           textareaValue, loading>>
    /\ last' = Step("handleSubmitSuccess")
    /\ UNCHANGED result
    /\ UNCHANGED homeVars
    /\ UNCHANGED analysisVars
    /\ UNCHANGED <<pdfFiles, selectedPdf, error, isFetchingPdfs,
                   isNewConversation, showPdfViewer, currentPage, aborted,
                   mounted, listFetches>>

\* the continuation after a 2xx response: lines 303-326 and 331
handleSubmitSuccess(i, data) ==
    /\ i \in 1..Len(queryReqs)
    /\ data \in QueryResponses
    /\ queryReqs' = RemoveAt(queryReqs, i)
    /\ LET req == queryReqs[i]
       IN IF mounted
          THEN /\ foundPages' =
                     IF hasLocation(data) THEN data.pages ELSE foundPages
               /\ showPagePrompt' =
                     IF hasLocation(data) THEN TRUE ELSE showPagePrompt
               /\ conversations' = updatedConversations(req, data)
               /\ query' = <<>>
               /\ textareaValue' = <<>>
               /\ isNewConversation' = FALSE
               /\ loading' = FALSE
          ELSE UNCHANGED <<foundPages, showPagePrompt, conversations, query,
                           textareaValue,
                           isNewConversation, loading>>
    /\ last' = Step("handleSubmitSuccess")
    /\ UNCHANGED result
    /\ UNCHANGED homeVars
    /\ UNCHANGED analysisVars
    /\ UNCHANGED <<pdfFiles, selectedPdf, error, isFetchingPdfs,
                   showPdfViewer, currentPage, aborted, mounted, listFetches>>

\* handleSubmitFailure clearing the input as the success path does
handleSubmitFailure_ClearsQuery(i, kind) ==
    /\ i \in 1..Len(queryReqs)
    /\ kind \in QueryFailures
    /\ queryReqs' = RemoveAt(queryReqs, i)
    /\ IF mounted
       THEN /\ error' = "An error occurred while processing your query."
            /\ loading' = FALSE
            /\ query' = <<>>
            /\ textareaValue' = <<>>
       ELSE UNCHANGED <<error, loading, query, textareaValue>>
    /\ last' = Step("handleSubmitFailure")
    /\ UNCHANGED result
    /\ UNCHANGED homeVars
    /\ UNCHANGED analysisVars
    /\ UNCHANGED <<conversations, pdfFiles, selectedPdf,
                   isNewConversation, isFetchingPdfs, showPdfViewer,
                   currentPage, showPagePrompt, foundPages, aborted, mounted,
                   listFetches>>

\* handleSubmitFailure without the finally block of lines 330-332
handleSubmitFailure_NoFinally(i, kind) ==
    /\ i \in 1..Len(queryReqs)
    /\ kind \in QueryFailures
    /\ queryReqs' = RemoveAt(queryReqs, i)
    /\ IF mounted
       THEN error' = "An error occurred while processing your query."
       ELSE UNCHANGED error
    /\ last' = Step("handleSubmitFailure")
    /\ UNCHANGED result
    /\ UNCHANGED homeVars
    /\ UNCHANGED analysisVars
    /\ UNCHANGED <<query, textareaValue,
                   conversations, loading, pdfFiles, selectedPdf,
                   isNewConversation, isFetchingPdfs, showPdfViewer,
                   currentPage, showPagePrompt, foundPages, aborted, mounted,
                   listFetches>>

\* the fetch rejects, or answers non-2xx (line 301): lines 327-331
handleSubmitFailure(i, kind) ==
    /\ i \in 1..Len(queryReqs)
    /\ kind \in QueryFailures
    /\ queryReqs' = RemoveAt(queryReqs, i)
    /\ IF mounted
       THEN /\ error' = "An error occurred while processing your query."
            /\ loading' = FALSE
       ELSE UNCHANGED <<error, loading>>
    /\ last' = Step("handleSubmitFailure")
    /\ UNCHANGED result
    /\ UNCHANGED homeVars
    /\ UNCHANGED analysisVars
    /\ UNCHANGED <<query, textareaValue,
                   conversations, pdfFiles, selectedPdf,
                   isNewConversation, isFetchingPdfs, showPdfViewer,
                   currentPage, showPagePrompt, foundPages, aborted, mounted,
                   listFetches>>

-----------------------------------------------------------------------------
(* The page offer, lines 336-352 and 420-449 *)

\* currentConversation taking the last three turns
currentConversation_Three == SliceFrom(conversations, -3)

\* const currentConversation = conversations.slice(-2), line 491 (and 130)
currentConversation == SliceFrom(conversations, -2)

\* const historyConversation = conversations.slice(0, -2), line 492 (and 131)
historyConversation == Slice(conversations, 0, -2)

\* the Yes/No buttons of the turn at index k (1-based) are rendered: the turn
\* is a page prompt and showPagePrompt is set (lines 422, 431); the current
\* exchange and the history are both rendered by renderConversationItem
promptButtonsShown(k) ==
    /\ k \in 1..Len(conversations)
    /\ conversations[k].isPagePrompt
    /\ showPagePrompt

\* `Navigating to page ${foundPages[0].page}.`
navigatingContent(page) == <<"Navigating to page ", ToString(page), ".">>

\* handlePageNavigation navigating on any reply, without the test of
\* userResponse
handlePageNavigation_AnyReply(k, userResponse) ==
    /\ mounted
    /\ promptButtonsShown(k)
    /\ userResponse \in {"yes", "no"}
    /\ IF Len(foundPages) > 0
       THEN /\ showPdfViewer' = TRUE
            /\ currentPage' = foundPages[1].page
            /\ conversations' = conversations \o
                 << HumanTurn(<<"Yes">>, conversations[k].pdf, "yes"),
                    AiTurn(navigatingContent(foundPages[1].page),
                           conversations[k].pdf, "nav") >>
       ELSE /\ conversations' = conversations \o
                 << HumanTurn(<<"No">>, conversations[k].pdf, "no") >>
            /\ UNCHANGED <<showPdfViewer, currentPage>>
    /\ showPagePrompt' = FALSE
    /\ last' = [Step("handlePageNavigation") EXCEPT !.op =
                  IF userResponse = "yes" THEN "replyYes" ELSE "replyNo"]
    /\ UNCHANGED result
    /\ UNCHANGED homeVars
    /\ UNCHANGED analysisVars
    /\ UNCHANGED <<query, textareaValue,
                   loading, pdfFiles, selectedPdf, error,
                   isNewConversation, isFetchingPdfs, foundPages, aborted,
                   mounted, queryReqs, listFetches>>

\* the user presses Yes ("yes") or No ("no") on the page prompt at index k
handlePageNavigation(k, userResponse) ==
    /\ mounted
    /\ promptButtonsShown(k)
    /\ userResponse \in {"yes", "no"}
    /\ IF ToLowerCase(userResponse) = "yes" /\ Len(foundPages) > 0
       THEN /\ showPdfViewer' = TRUE
            /\ currentPage' = foundPages[1].page
            /\ conversations' = conversations \o
                 << HumanTurn(<<"Yes">>, conversations[k].pdf, "yes"),
                    AiTurn(navigatingContent(foundPages[1].page),
                           conversations[k].pdf, "nav") >>
       ELSE /\ conversations' = conversations \o
                 << HumanTurn(<<"No">>, conversations[k].pdf, "no") >>
            /\ UNCHANGED <<showPdfViewer, currentPage>>
    /\ showPagePrompt' = FALSE
    /\ last' = [Step("handlePageNavigation") EXCEPT !.op =
                  IF userResponse = "yes" THEN "replyYes" ELSE "replyNo"]
    /\ UNCHANGED result
    /\ UNCHANGED homeVars
    /\ UNCHANGED analysisVars
    /\ UNCHANGED <<query, textareaValue,
                   loading, pdfFiles, selectedPdf, error,
                   isNewConversation, isFetchingPdfs, foundPages, aborted,
                   mounted, queryReqs, listFetches>>

-----------------------------------------------------------------------------
(* Document selection and reset, lines 355-365 and 401-412 *)

\* the values the <select> offers, lines 574-589
selectOptions == {""} \cup {pdfFiles[j] : j \in 1..Len(pdfFiles)}

\* handlePdfSelect recording the selection only, as the onChange of the
\* earlier versions does
handlePdfSelect_NoReset(newSelectedPdf) ==
    /\ mounted
    /\ ~isFetchingPdfs
    /\ newSelectedPdf \in selectOptions
    /\ newSelectedPdf # selectedPdf
    /\ selectedPdf' = newSelectedPdf
    /\ fetchPdfFilesEffect(newSelectedPdf, error, isFetchingPdfs, listFetches)
    /\ queryReqs' = cancelRequests(queryReqs)
    /\ last' = Step("handlePdfSelect")
    /\ UNCHANGED result
    /\ onPdfSelect(newSelectedPdf)
    /\ analysisResults' = nullAnalysis
    /\ UNCHANGED <<isAnalyzing, activeAnalysisTab, analyzeReqs>>
    /\ UNCHANGED <<query, textareaValue,
                   loading, pdfFiles, showPagePrompt, mounted,
                   isNewConversation, conversations, showPdfViewer,
                   currentPage, foundPages>>

\* onChange of the <select>, which is disabled while isFetchingPdfs
handlePdfSelect(newSelectedPdf) ==
    /\ mounted
    /\ ~isFetchingPdfs
    /\ newSelectedPdf \in selectOptions
    /\ newSelectedPdf # selectedPdf
    /\ selectedPdf' = newSelectedPdf
    /\ isNewConversation' = TRUE
    /\ conversations' = <<>>
    /\ showPdfViewer' = FALSE
    /\ currentPage' = 1
    /\ foundPages' = <<>>
    /\ fetchPdfFilesEffect(newSelectedPdf, error, isFetchingPdfs, listFetches)
    /\ queryReqs' = cancelRequests(queryReqs)
    /\ last' = Step("handlePdfSelect")
    /\ UNCHANGED result
    /\ onPdfSelect(newSelectedPdf)
    /\ analysisResults' = nullAnalysis
    /\ UNCHANGED <<isAnalyzing, activeAnalysisTab, analyzeReqs>>
    /\ UNCHANGED <<query, textareaValue,
                   loading, pdfFiles, showPagePrompt, mounted>>

\* toggleNewConversation flipping the viewer as togglePdfViewer does
toggleNewConversation_FlipsViewer ==
    /\ mounted
    /\ isNewConversation' = TRUE
    /\ conversations' = <<>>
    /\ selectedPdf' = ""
    /\ showPdfViewer' = ~showPdfViewer
    /\ currentPage' = 1
    /\ foundPages' = <<>>
    /\ fetchPdfFilesEffect("", error, isFetchingPdfs, listFetches)
    /\ queryReqs' = cancelRequests(queryReqs)
    /\ last' = Step(IF last.op \in {"toggleNewConversation",
                                     "toggleNewConversationAgain"}
                    THEN "toggleNewConversationAgain"
                    ELSE "toggleNewConversation")
    /\ UNCHANGED result
    /\ onPdfSelect("")
    /\ analysisResults' = nullAnalysis
    /\ UNCHANGED <<isAnalyzing, activeAnalysisTab, analyzeReqs>>
    /\ UNCHANGED <<query, textareaValue,
                   loading, pdfFiles, showPagePrompt, mounted>>

\* toggleNewConversation without the onPdfSelect("") of line 405
toggleNewConversation_NoNotify ==
    /\ mounted
    /\ isNewConversation' = TRUE
    /\ conversations' = <<>>
    /\ selectedPdf' = ""
    /\ showPdfViewer' = FALSE
    /\ currentPage' = 1
    /\ foundPages' = <<>>
    /\ fetchPdfFilesEffect("", error, isFetchingPdfs, listFetches)
    /\ queryReqs' = cancelRequests(queryReqs)
    /\ last' = Step(IF last.op \in {"toggleNewConversation",
                                     "toggleNewConversationAgain"}
                    THEN "toggleNewConversationAgain"
                    ELSE "toggleNewConversation")
    /\ UNCHANGED result
    /\ UNCHANGED homeVars
    /\ analysisResults' = nullAnalysis
    /\ UNCHANGED <<isAnalyzing, activeAnalysisTab, analyzeReqs>>
    /\ UNCHANGED <<query, textareaValue,
                   loading, pdfFiles, showPagePrompt, mounted>>

\* the New Conversation button, lines 608-620
toggleNewConversation ==
    /\ mounted
    /\ isNewConversation' = TRUE
    /\ conversations' = <<>>
    /\ selectedPdf' = ""
    /\ showPdfViewer' = FALSE
    /\ currentPage' = 1
    /\ foundPages' = <<>>
    /\ fetchPdfFilesEffect("", error, isFetchingPdfs, listFetches)
    /\ queryReqs' = cancelRequests(queryReqs)
    /\ last' = Step(IF last.op \in {"toggleNewConversation",
                                     "toggleNewConversationAgain"}
                    THEN "toggleNewConversationAgain"
                    ELSE "toggleNewConversation")
    /\ UNCHANGED result
    /\ onPdfSelect("")
    /\ analysisResults' = nullAnalysis
    /\ UNCHANGED <<isAnalyzing, activeAnalysisTab, analyzeReqs>>
    /\ UNCHANGED <<query, textareaValue,
                   loading, pdfFiles, showPagePrompt, mounted>>

\* the Show PDF / Hide PDF button, lines 368-370 and 632-639
togglePdfViewer ==
    /\ mounted
    /\ selectedPdf # ""
    /\ showPdfViewer' = ~showPdfViewer
    /\ last' = Step("togglePdfViewer")
    /\ UNCHANGED result
    /\ UNCHANGED homeVars
    /\ UNCHANGED analysisVars
    /\ UNCHANGED <<query, textareaValue,
                   conversations, loading, pdfFiles, selectedPdf,
                   error, isNewConversation, isFetchingPdfs, currentPage,
                   showPagePrompt, foundPages, aborted, mounted, queryReqs,
                   listFetches>>

\* a page button of the viewer, lines 668-688
clickPageButton(j) ==
    /\ mounted
    /\ showPdfViewer
    /\ selectedPdf # ""
    /\ Len(foundPages) > 1
    /\ j \in 1..Len(foundPages)
    /\ currentPage # foundPages[j].page
    /\ currentPage' = foundPages[j].page
    /\ last' = Step("clickPageButton")
    /\ UNCHANGED result
    /\ UNCHANGED homeVars
    /\ UNCHANGED analysisVars
    /\ UNCHANGED <<query, textareaValue,
                   conversations, loading, pdfFiles, selectedPdf,
                   error, isNewConversation, isFetchingPdfs, showPdfViewer,
                   showPagePrompt, foundPages, aborted, mounted, queryReqs,
                   listFetches>>

\* the component is torn down: the effect cleanup of line 276 runs; no fetch
\* was given abortController's signal, so pending requests still complete
unmount ==
    /\ mounted
    /\ mounted' = FALSE
    /\ aborted' = TRUE
    /\ queryReqs' = cancelRequests(queryReqs)
    /\ last' = Step("unmount")
    /\ UNCHANGED result
    /\ UNCHANGED homeVars
    /\ UNCHANGED analysisVars
    /\ UNCHANGED <<query, textareaValue,
                   conversations, loading, pdfFiles, selectedPdf,
                   error, isNewConversation, isFetchingPdfs, showPdfViewer,
                   currentPage, showPagePrompt, foundPages, listFetches>>

-----------------------------------------------------------------------------

Next ==
    \/ \E closure \in PdfNames : fetchPdfFilesSuccess(closure)
    \/ \E closure \in PdfNames : fetchPdfFilesFailure(closure)
    \/ \E text \in QueryTexts : setQuery(text)
    \/ clickSubmit
    \/ \E i \in 1..Len(queryReqs), data \in QueryResponses :
           handleSubmitSuccess(i, data)
    \/ \E i \in 1..Len(queryReqs), kind \in QueryFailures :
           handleSubmitFailure(i, kind)
    \/ \E k \in 1..Len(conversations), r \in {"yes", "no"} :
           handlePageNavigation(k, r)
    \/ MayFetch /\ \E p \in selectOptions : handlePdfSelect(p)
    \/ (selectedPdf # "" => MayFetch) /\ toggleNewConversation
    \/ unmount

\* The conversation core.  The two viewer buttons (togglePdfViewer,
\* clickPageButton) write showPdfViewer and currentPage only, which no step
\* of Next reads; the specification with them is SpecViewer.
Spec == Init /\ [][Next]_vars

NextViewer ==
    \/ Next
    \/ togglePdfViewer
    \/ \E j \in 1..Len(foundPages) : clickPageButton(j)

SpecViewer == Init /\ [][NextViewer]_vars

\* the component with submit events of the form dispatched past the button
NextForm ==
    \/ Next
    \/ formSubmit

SpecForm == Init /\ [][NextForm]_vars

\* the component with list fetches that overlap: a change of selectedPdf
\* starts one while an earlier one is pending (lines 252-277)
NextList ==
    \/ \E closure \in PdfNames : fetchPdfFilesSuccess(closure)
    \/ \E closure \in PdfNames : fetchPdfFilesFailure(closure)
    \/ \E text \in QueryTexts : setQuery(text)
    \/ Len(conversations) < MaxListTurns /\ clickSubmit
    \/ \E i \in 1..Len(queryReqs), data \in QueryResponses :
           handleSubmitSuccess(i, data)
    \/ \E i \in 1..Len(queryReqs), kind \in QueryFailures :
           handleSubmitFailure(i, kind)
    \/ \E k \in 1..Len(conversations), r \in {"yes", "no"} :
           handlePageNavigation(k, r)
    \/ MayOverlap /\ \E p \in selectOptions : handlePdfSelect(p)
    \/ (selectedPdf # "" => MayOverlap) /\ toggleNewConversation
    \/ unmount

SpecList == Init /\ [][NextList]_vars

-----------------------------------------------------------------------------
(* The parent component, Home.jsx lines 4-49 *)

\* what the server answers for a document: its image, and the X-Image-Type
\* header (here the first listed document has a custom image)
ImageType(pdfName) ==
    IF pdfName = ServerPdfFiles[1] THEN "custom" ELSE "default"

\* URL.createObjectURL(blob), Home.jsx line 23: a URL of the image of the
\* document asked for
createObjectURL(pdfName) == <<"blob:", pdfName>>

BackgroundFailures == {"network", "non2xx"}

\* response.ok: Home.jsx lines 20-25
fetchBackgroundImageSuccess(i) ==
    /\ i \in 1..Len(bgReqs)
    /\ bgReqs' = RemoveAt(bgReqs, i)
    /\ IF mounted
       THEN /\ backgroundImage' = createObjectURL(bgReqs[i])
            /\ isCustomImage' = (ImageType(bgReqs[i]) = "custom")
       ELSE UNCHANGED <<backgroundImage, isCustomImage>>
    /\ last' = Step("fetchBackgroundImageSuccess")
    /\ UNCHANGED result
    /\ UNCHANGED <<inHome, homeSelectedPdf>>
    /\ UNCHANGED analysisVars
    /\ UNCHANGED <<query, textareaValue, conversations, loading, pdfFiles,
                   selectedPdf, error, isNewConversation, isFetchingPdfs,
                   showPdfViewer, currentPage, showPagePrompt, foundPages,
                   aborted, mounted, queryReqs, listFetches>>

\* the response is not ok, or the fetch rejects: Home.jsx lines 26-35
fetchBackgroundImageFailure(i, kind) ==
    /\ i \in 1..Len(bgReqs)
    /\ kind \in BackgroundFailures
    /\ bgReqs' = RemoveAt(bgReqs, i)
    /\ IF mounted
       THEN /\ backgroundImage' = DefaultBackground
            /\ isCustomImage' = FALSE
       ELSE UNCHANGED <<backgroundImage, isCustomImage>>
    /\ last' = Step("fetchBackgroundImageFailure")
    /\ UNCHANGED result
    /\ UNCHANGED <<inHome, homeSelectedPdf>>
    /\ UNCHANGED analysisVars
    /\ UNCHANGED <<query, textareaValue, conversations, loading, pdfFiles,
                   selectedPdf, error, isNewConversation, isFetchingPdfs,
                   showPdfViewer, currentPage, showPagePrompt, foundPages,
                   aborted, mounted, queryReqs, listFetches>>

\* a step may start a further background-image fetch
MayFetchBackground == Len(bgReqs) < MaxBackgroundFetches

\* Home with its child: the document selection and the requests it starts.
\* The conversation steps read and write none of the parent's state and do
\* not write selectedPdf; they are left to Spec.
NextHome ==
    \/ MayFetchBackground
           /\ \E closure \in PdfNames : fetchPdfFilesSuccess(closure)
    \/ \E closure \in PdfNames : fetchPdfFilesFailure(closure)
    \/ MayFetchBackground /\ MayOverlap
           /\ \E p \in selectOptions : handlePdfSelect(p)
    \/ (selectedPdf # "" => MayOverlap) /\ toggleNewConversation
    \/ \E i \in 1..Len(bgReqs) : fetchBackgroundImageSuccess(i)
    \/ \E i \in 1..Len(bgReqs), kind \in BackgroundFailures :
           fetchBackgroundImageFailure(i, kind)
    \/ unmount

SpecHome == InitHome /\ [][NextHome]_vars

-----------------------------------------------------------------------------
(* Document analysis, lines 373-398 and 641-663 *)

AnalysisFailures == {"network", "non2xx"}

\* one of the analysis buttons is pressed (shown for a selected document,
\* disabled while isAnalyzing): lines 374-387, up to the await
analyzeDocument(analysisType) ==
    /\ mounted
    /\ selectedPdf # ""
    /\ ~isAnalyzing
    /\ analysisType \in AnalysisTypes
    /\ isAnalyzing' = TRUE
    /\ error' = null
    /\ analyzeReqs' = Append(analyzeReqs,
          [pdf_name |-> selectedPdf, analysis_type |-> analysisType])
    /\ UNCHANGED result
    /\ UNCHANGED homeVars
    /\ last' = Step("analyzeDocument")
    /\ UNCHANGED <<query, textareaValue, conversations, loading, pdfFiles,
                   selectedPdf, isNewConversation, isFetchingPdfs,
                   showPdfViewer, currentPage, showPagePrompt, foundPages,
                   aborted, mounted, analysisResults, activeAnalysisTab,
                   queryReqs, listFetches>>

\* the continuation after a 2xx response: lines 389-392 and 396-397
analyzeDocumentSuccess(i) ==
    /\ i \in 1..Len(analyzeReqs)
    /\ analyzeReqs' = RemoveAt(analyzeReqs, i)
    /\ IF mounted
       THEN /\ analysisResults' = analyzeReqs[i]
            /\ activeAnalysisTab' = analyzeReqs[i].analysis_type
            /\ isAnalyzing' = FALSE
       ELSE UNCHANGED <<analysisResults, activeAnalysisTab, isAnalyzing>>
    /\ UNCHANGED result
    /\ UNCHANGED homeVars
    /\ last' = Step("analyzeDocumentSuccess")
    /\ UNCHANGED <<query, textareaValue, conversations, loading, pdfFiles,
                   selectedPdf, error, isNewConversation, isFetchingPdfs,
                   showPdfViewer, currentPage, showPagePrompt, foundPages,
                   aborted, mounted, queryReqs, listFetches>>

\* the fetch rejects, or answers non-2xx (line 389): lines 393-397
analyzeDocumentFailure(i, kind) ==
    /\ i \in 1..Len(analyzeReqs)
    /\ kind \in AnalysisFailures
    /\ analyzeReqs' = RemoveAt(analyzeReqs, i)
    /\ IF mounted
       THEN /\ error' = "Failed to analyze document"
            /\ isAnalyzing' = FALSE
       ELSE UNCHANGED <<error, isAnalyzing>>
    /\ UNCHANGED result
    /\ UNCHANGED homeVars
    /\ last' = Step("analyzeDocumentFailure")
    /\ UNCHANGED <<query, textareaValue, conversations, loading, pdfFiles,
                   selectedPdf, isNewConversation, isFetchingPdfs,
                   showPdfViewer, currentPage, showPagePrompt, foundPages,
                   aborted, mounted, analysisResults, activeAnalysisTab,
                   queryReqs, listFetches>>

\* the component with the document analysis
NextAnalyze ==
    \/ \E closure \in PdfNames : fetchPdfFilesSuccess(closure)
    \/ \E closure \in PdfNames : fetchPdfFilesFailure(closure)
    \/ \E text \in QueryTexts : setQuery(text)
    \/ Len(conversations) < MaxAnalyzeTurns /\ clickSubmit
    \/ \E i \in 1..Len(queryReqs), data \in QueryResponses :
           handleSubmitSuccess(i, data)
    \/ \E i \in 1..Len(queryReqs), kind \in QueryFailures :
           handleSubmitFailure(i, kind)
    \/ \E k \in 1..Len(conversations), r \in {"yes", "no"} :
           handlePageNavigation(k, r)
    \/ MayFetch /\ \E p \in selectOptions : handlePdfSelect(p)
    \/ (selectedPdf # "" => MayFetch) /\ toggleNewConversation
    \/ unmount
    \/ \E analysisType \in AnalysisTypes : analyzeDocument(analysisType)
    \/ \E i \in 1..Len(analyzeReqs) : analyzeDocumentSuccess(i)
    \/ \E i \in 1..Len(analyzeReqs), kind \in AnalysisFailures :
           analyzeDocumentFailure(i, kind)

SpecAnalyze == Init /\ [][NextAnalyze]_vars

\* a pending /api/query fetch settles: the promise awaited at line 293
\* resolves or rejects
queryFetchSettles ==
    \/ \E i \in 1..Len(queryReqs), data \in QueryResponses :
           handleSubmitSuccess(i, data)
    \/ \E i \in 1..Len(queryReqs), kind \in QueryFailures :
           handleSubmitFailure(i, kind)

\* the conversation core on a network that eventually answers or fails each
\* query request
NextLive ==
    \/ \E closure \in PdfNames : fetchPdfFilesSuccess(closure)
    \/ \E closure \in PdfNames : fetchPdfFilesFailure(closure)
    \/ \E text \in QueryTexts : setQuery(text)
    \/ Len(conversations) < MaxLiveTurns /\ clickSubmit
    \/ queryFetchSettles
    \/ \E k \in 1..Len(conversations), r \in {"yes", "no"} :
           handlePageNavigation(k, r)
    \/ MayFetch /\ \E p \in selectOptions : handlePdfSelect(p)
    \/ (selectedPdf # "" => MayFetch) /\ toggleNewConversation
    \/ unmount

SpecLive == Init /\ [][NextLive]_vars /\ WF_vars(queryFetchSettles)

-----------------------------------------------------------------------------
(* The earlier version of the component, QueryInput.jsx lines 1-217: the   *)
(* selector is locked once a conversation exists.  It has the state of     *)
(* lines 6-14; the textarea (lines 162-164), the submit button (lines      *)
(* 168-174) and handleSubmit up to its await (lines 34-50) read as in the  *)
(* current version, so setQuery and clickSubmit are the steps above.       *)

\* the state the earlier version does not have
laterVars == <<isFetchingPdfs, showPdfViewer, currentPage, showPagePrompt,
               foundPages, aborted>>

\* the one list fetch of the mount effect answers: lines 22-27.  The
\* closure is that of the first render, where selectedPdf is "".
fetchPdfFilesSuccessEarlier ==
    /\ listFetches[""] > 0
    /\ listFetches' = [listFetches EXCEPT ![""] = @ - 1]
    /\ LET data == [pdf_files |-> ServerPdfFiles]
       IN IF mounted
          THEN /\ pdfFiles' = data.pdf_files
               /\ selectedPdf' = IF Len(data.pdf_files) > 0
                                 THEN data.pdf_files[1] ELSE selectedPdf
          ELSE UNCHANGED <<pdfFiles, selectedPdf>>
    /\ last' = Step("fetchPdfFiles")
    /\ UNCHANGED result
    /\ UNCHANGED <<homeVars, analysisVars, laterVars>>
    /\ UNCHANGED <<query, textareaValue, conversations, loading, error,
                   isNewConversation, mounted, queryReqs>>

\* the list fetch fails: lines 28-31
fetchPdfFilesFailureEarlier ==
    /\ listFetches[""] > 0
    /\ listFetches' = [listFetches EXCEPT ![""] = @ - 1]
    /\ error' = IF mounted
                THEN "Failed to fetch PDF files. Please try again later."
                ELSE error
    /\ last' = Step("fetchPdfFilesFailure")
    /\ UNCHANGED result
    /\ UNCHANGED <<homeVars, analysisVars, laterVars>>
    /\ UNCHANGED <<query, textareaValue, conversations, loading, pdfFiles,
                   selectedPdf, isNewConversation, mounted, queryReqs>>

\* the continuation after response.ok: lines 52-68 and 76-78
handleSubmitSuccessEarlier(i, data) ==
    /\ i \in 1..Len(queryReqs)
    /\ data \in QueryResponses
    /\ queryReqs' = RemoveAt(queryReqs, i)
    /\ LET req  == queryReqs[i]
           pair == << HumanTurn(req.query, req.body.pdf_name, "query"),
                      AiTurn(data.response, req.body.pdf_name, "answer") >>
       IN IF mounted
          THEN /\ conversations' = IF req.isNewConversation THEN pair
                                   ELSE conversations \o pair
               /\ query' = <<>>
               /\ textareaValue' = <<>>
               /\ isNewConversation' = FALSE
               /\ loading' = FALSE
          ELSE UNCHANGED <<conversations, query, textareaValue,
                           isNewConversation, loading>>
    /\ last' = Step("handleSubmitSuccess")
    /\ UNCHANGED result
    /\ UNCHANGED <<homeVars, analysisVars, laterVars>>
    /\ UNCHANGED <<pdfFiles, selectedPdf, error, mounted, listFetches>>

\* the response is not ok (lines 69-72) or the fetch rejects (lines 73-75),
\* then the finally of lines 76-78
handleSubmitFailureEarlier(i, kind) ==
    /\ i \in 1..Len(queryReqs)
    /\ kind \in QueryFailures
    /\ queryReqs' = RemoveAt(queryReqs, i)
    /\ IF mounted
       THEN /\ error' = IF kind = "non2xx" THEN "Error from server"
                        ELSE "An error occurred while processing your query."
            /\ loading' = FALSE
       ELSE UNCHANGED <<error, loading>>
    /\ last' = Step("handleSubmitFailure")
    /\ UNCHANGED result
    /\ UNCHANGED <<homeVars, analysisVars, laterVars>>
    /\ UNCHANGED <<query, textareaValue, conversations, pdfFiles,
                   selectedPdf, isNewConversation, mounted, listFetches>>

\* disabled={!isNewConversation && conversations.length > 0}, line 151
selectDisabledEarlier == ~isNewConversation /\ Len(conversations) > 0

\* onChange={(e) => setSelectedPdf(e.target.value)}, line 149
setSelectedPdfEarlier(newSelectedPdf) ==
    /\ mounted
    /\ ~selectDisabledEarlier
    /\ newSelectedPdf \in selectOptions
    /\ newSelectedPdf # selectedPdf
    /\ selectedPdf' = newSelectedPdf
    /\ last' = Step("setSelectedPdf")
    /\ UNCHANGED result
    /\ UNCHANGED <<homeVars, analysisVars, laterVars>>
    /\ UNCHANGED <<query, textareaValue, conversations, loading, pdfFiles,
                   error, isNewConversation, mounted, queryReqs, listFetches>>

\* the New Conversation button: lines 80-86
toggleNewConversationEarlier ==
    /\ mounted
    /\ isNewConversation' = TRUE
    /\ conversations' = <<>>
    /\ selectedPdf' = ""
    /\ last' = Step("toggleNewConversation")
    /\ UNCHANGED result
    /\ UNCHANGED <<homeVars, analysisVars, laterVars>>
    /\ UNCHANGED <<query, textareaValue, loading, pdfFiles, error, mounted,
                   queryReqs, listFetches>>

\* the component is torn down; the effect of lines 16-18 has no cleanup
unmountEarlier ==
    /\ mounted
    /\ mounted' = FALSE
    /\ last' = Step("unmount")
    /\ UNCHANGED result
    /\ UNCHANGED <<homeVars, analysisVars, laterVars>>
    /\ UNCHANGED <<query, textareaValue, conversations, loading, pdfFiles,
                   selectedPdf, error, isNewConversation, queryReqs,
                   listFetches>>

NextEarlier ==
    \/ fetchPdfFilesSuccessEarlier
    \/ fetchPdfFilesFailureEarlier
    \/ \E text \in QueryTexts : setQuery(text)
    \/ Len(conversations) < MaxEarlierTurns /\ clickSubmit
    \/ \E i \in 1..Len(queryReqs), data \in QueryResponses :
           handleSubmitSuccessEarlier(i, data)
    \/ \E i \in 1..Len(queryReqs), kind \in QueryFailures :
           handleSubmitFailureEarlier(i, kind)
    \/ \E p \in selectOptions : setSelectedPdfEarlier(p)
    \/ toggleNewConversationEarlier
    \/ unmountEarlier

SpecEarlier == Init /\ [][NextEarlier]_vars

-----------------------------------------------------------------------------
(* The earliest version of the component, unnamed/part_001: one query, one *)
(* result.  Its state is query, result and loading (lines 4-6); the input  *)
(* of lines 41-48 sets query as the textarea of the current version does,  *)
(* so setQuery is the step above.                                          *)

InitEarliest ==
    /\ query = <<>>
    /\ textareaValue = <<>>
    /\ result = nullResult
    /\ loading = FALSE
    /\ mounted = TRUE
    /\ queryReqs = <<>>
    /\ last = [op |-> "mount", n |-> 0]
    \* the state this version does not have
    /\ conversations = <<>>
    /\ pdfFiles = <<>>
    /\ selectedPdf = ""
    /\ error = null
    /\ isNewConversation = TRUE
    /\ isFetchingPdfs = FALSE
    /\ showPdfViewer = FALSE
    /\ currentPage = 1
    /\ showPagePrompt = FALSE
    /\ foundPages = <<>>
    /\ aborted = FALSE
    /\ analysisResults = nullAnalysis
    /\ isAnalyzing = FALSE
    /\ activeAnalysisTab = "topics"
    /\ analyzeReqs = <<>>
    /\ listFetches = [p \in PdfNames |-> 0]
    /\ inHome = FALSE
    /\ homeSelectedPdf = ""
    /\ backgroundImage = DefaultBackground
    /\ isCustomImage = FALSE
    /\ bgReqs = <<>>

\* what steps of the earliest version leave alone
earliestFrame ==
    /\ UNCHANGED <<homeVars, analysisVars, laterVars>>
    /\ UNCHANGED <<conversations, pdfFiles, selectedPdf, error,
                   isNewConversation, mounted, listFetches>>

\* handleSubmit up to its await: part_001 lines 8-19
handleSubmitEarliest ==
    IF Trim(query) = <<>>
    THEN UNCHANGED <<loading, queryReqs>>
    ELSE /\ loading' = TRUE
         /\ queryReqs' = Append(queryReqs, [body |-> [query |-> query]])

\* the submit button, disabled={loading} (lines 39, 49-55)
clickSubmitEarliest ==
    /\ IF loading
       THEN /\ last' = Step("submitIgnored")
            /\ UNCHANGED <<loading, queryReqs>>
       ELSE /\ last' = Step("handleSubmit")
            /\ handleSubmitEarliest
    /\ UNCHANGED <<query, textareaValue, result>>
    /\ earliestFrame

\* a key of the input (line 45).  handleKeyPress (lines 31-35) calls
\* handleSubmit on Enter, whose e.preventDefault() (line 9) keeps the
\* browser from submitting the form for the same key press.
EarliestKeys == {"Enter", "Tab"}

handleKeyPress(key) ==
    /\ key \in EarliestKeys
    /\ IF key = "Enter"
       THEN /\ last' = Step("handleKeyPress")
            /\ handleSubmitEarliest
       ELSE /\ last' = Step("otherKey")
            /\ UNCHANGED <<loading, queryReqs>>
    /\ UNCHANGED <<query, textareaValue, result>>
    /\ earliestFrame

\* the continuation after an answer: lines 20-21 and 25-28
handleSubmitSuccessEarliest(i) ==
    /\ i \in 1..Len(queryReqs)
    /\ queryReqs' = RemoveAt(queryReqs, i)
    /\ result' = [query |-> queryReqs[i].body.query, response |-> <<"r">>,
                  error |-> null]
    /\ loading' = FALSE
    /\ query' = <<>>
    /\ textareaValue' = <<>>
    /\ last' = Step("handleSubmitSuccess")
    /\ earliestFrame

\* the fetch rejects: lines 22-28
handleSubmitFailureEarliest(i) ==
    /\ i \in 1..Len(queryReqs)
    /\ queryReqs' = RemoveAt(queryReqs, i)
    /\ result' = [query |-> null, response |-> null,
                  error |-> "An error occurred while processing your query."]
    /\ loading' = FALSE
    /\ query' = <<>>
    /\ textareaValue' = <<>>
    /\ last' = Step("handleSubmitFailure")
    /\ earliestFrame

NextEarliest ==
    \/ \E text \in QueryTexts : setQuery(text)
    \/ Len(queryReqs) < MaxEarliestReqs /\ clickSubmitEarliest
    \/ Len(queryReqs) < MaxEarliestReqs
           /\ \E key \in EarliestKeys : handleKeyPress(key)
    \/ \E i \in 1..Len(queryReqs) : handleSubmitSuccessEarliest(i)
    \/ \E i \in 1..Len(queryReqs) : handleSubmitFailureEarliest(i)

SpecEarliest == InitEarliest /\ [][NextEarliest]_vars

-----------------------------------------------------------------------------
(* Properties *)

IsPrefix(s, t) == Len(s) <= Len(t) /\ SubSeq(t, 1, Len(s)) = s

\* a step that resets the conversation
resetStep == toggleNewConversation \/ \E p \in PdfNames : handlePdfSelect(p)

\* a page offer awaits its yes/no reply
offerAwaiting == \E k \in 1..Len(conversations) : promptButtonsShown(k)

\* C1: at most one /api/query request is outstanding at any time, and a press
\* of the submit button while a request is pending issues no request and
\* changes neither conversations nor isNewConversation.
C1_SingleFlight ==
    /\ [](Len(queryReqs) <= 1)
    /\ [][(clickSubmit /\ queryReqs # <<>>) =>
            UNCHANGED <<queryReqs, conversations, isNewConversation>>]_vars

\* C1 witness: the button was pressed with a query typed and a document
\* selected while a request was pending
C1_Witness ==
    /\ last.op = "submitIgnored"
    /\ Len(queryReqs) = 1
    /\ Trim(query) # <<>>
    /\ selectedPdf # ""

\* C2: the completion of a request that was pending when a document was
\* selected, the conversation was reset or the component was torn down is
\* discarded: it appends no turn, does not clear isNewConversation and opens
\* no page offer.
C2_CancelledDiscarded ==
    [][\A i \in 1..Len(queryReqs), data \in QueryResponses :
          (handleSubmitSuccess(i, data) /\ queryReqs[i].cancelled) =>
              UNCHANGED <<conversations, isNewConversation, showPagePrompt,
                          foundPages>>]_vars

\* C3: every turn of the conversation_history of a pending /api/query
\* request comes from a request that carried the same pdf_name.
C3_NoCrossDocumentContext ==
    \A i \in 1..Len(queryReqs) :
        \A k \in 1..Len(queryReqs[i].body.conversation_history) :
            queryReqs[i].body.conversation_history[k].pdf
                = queryReqs[i].body.pdf_name

\* C4: the state right after the user selects a document has an empty
\* conversation, isNewConversation set and selectedPdf equal to the chosen
\* document, whatever the state before.
C4_SelectResets ==
    [][\A p \in PdfNames :
          handlePdfSelect(p) =>
              /\ conversations' = <<>>
              /\ isNewConversation' = TRUE
              /\ selectedPdf' = p]_vars

\* C4 witness: a document was selected while the log held turns of an
\* underway conversation
C4_Witness ==
    /\ last.op = "handlePdfSelect"
    /\ last.n > 0
    /\ selectedPdf # ""

\* C5: between two resets every change of conversations keeps the previous
\* value as a prefix.
C5_AppendOnly ==
    [][resetStep \/ IsPrefix(conversations, conversations')]_vars

\* C6: a failed submission leaves conversations, isNewConversation and the
\* input text as they are and leaves an error message set.
C6_FailureLeavesLog ==
    [][\A i \in 1..Len(queryReqs), kind \in QueryFailures :
          (handleSubmitFailure(i, kind) /\ mounted) =>
              /\ UNCHANGED <<conversations, isNewConversation, query>>
              /\ error' # null
              /\ error' # ""]_vars

\* C6 witness: a submission failed in a conversation that holds turns, with
\* the submitted text still in the input
C6_Witness ==
    /\ last.op = "handleSubmitFailure"
    /\ mounted
    /\ conversations # <<>>
    /\ Trim(query) # <<>>
    /\ ~isNewConversation

\* C7: a request carries an empty conversation_history when
\* isNewConversation is set at submit time and the complete conversations
\* otherwise, and its is_new_conversation equals isNewConversation.
C7_RequestContext ==
    [][(clickSubmit /\ ~submitDisabled) =>
          /\ Len(queryReqs') = Len(queryReqs) + 1
          /\ LET body == queryReqs'[Len(queryReqs')].body
             IN /\ isNewConversation => body.conversation_history = <<>>
                /\ ~isNewConversation =>
                       body.conversation_history = conversations
                /\ body.is_new_conversation = isNewConversation]_vars

\* C7 witness: a request was issued in an underway conversation of more
\* than one exchange
C7_Witness ==
    /\ last.op = "handleSubmit"
    /\ Len(queryReqs) = 1
    /\ ~queryReqs[1].body.is_new_conversation
    /\ Len(queryReqs[1].body.conversation_history) > 2

\* C8: a successful response appends the human turn of the submitted text
\* and the assistant turn of the response; exactly when the response has
\* has_location and at least one page it also appends one page-prompt turn
\* and opens the page offer with the pages of the response; the input is
\* cleared and isNewConversation becomes false.
C8_SuccessAppends ==
    [][\A i \in 1..Len(queryReqs), data \in QueryResponses :
          (handleSubmitSuccess(i, data) /\ mounted) =>
              LET pdf     == queryReqs[i].body.pdf_name
                  located == data.has_location /\ Len(data.pages) >= 1
                  pair    == << HumanTurn(queryReqs[i].body.query, pdf, "query"),
                                AiTurn(data.response, pdf, "answer") >>
              IN /\ located =>
                       /\ conversations' =
                            conversations \o pair \o <<PagePromptTurn(pdf)>>
                       /\ showPagePrompt'
                       /\ foundPages' = data.pages
                 /\ ~located =>
                       /\ conversations' = conversations \o pair
                       /\ UNCHANGED <<showPagePrompt, foundPages>>
                 /\ query' = <<>>
                 /\ isNewConversation' = FALSE]_vars

\* C9: the history view followed by the current-exchange view is
\* conversations, no turn is in both or in neither, and the current exchange
\* has at most two turns.
C9_ViewsPartition ==
    /\ historyConversation \o currentConversation = conversations
    /\ Len(historyConversation) + Len(currentConversation)
           = Len(conversations)
    /\ Len(currentConversation) <= 2

\* C9 witness: a log of odd length whose history view is not empty
C9_Witness ==
    /\ Len(conversations) = 5
    /\ Len(historyConversation) = 3

turnsOfKind(kinds) ==
    Cardinality({k \in 1..Len(conversations) : conversations[k].kind \in kinds})

\* no query request is in flight and no page offer awaits its reply
atRest == queryReqs = <<>> /\ ~offerAwaiting

\* C10 as stated: conversations.length is even in every state at rest.
C10_EvenAtRest == atRest => Len(conversations) % 2 = 0

\* C10 amended: at rest the length of conversations is even exactly when the
\* number of its page-prompt turns plus the number of its "No" replies is
\* even; a log without page-prompt turns has even length.
C10_ParityAtRest ==
    atRest =>
        /\ Len(conversations) % 2 = turnsOfKind({"offer", "no"}) % 2
        /\ turnsOfKind({"offer"}) = 0 => Len(conversations) % 2 = 0

\* C10 witness: at rest after a yes reply, with a log of odd length
C10_Witness ==
    /\ atRest
    /\ last.op = "replyYes"
    /\ Len(conversations) % 2 = 1

\* C11: wherever the Yes/No controls of a page prompt are active, a yes
\* reply sets currentPage to the page of the first candidate page of the
\* offer and appends the human turn "Yes" and the assistant turn
\* "Navigating to page N." naming that page.
C11_YesNavigates ==
    [][\A k \in 1..Len(conversations) :
          handlePageNavigation(k, "yes") =>
              /\ Len(foundPages) > 0
              /\ currentPage' = foundPages[1].page
              /\ conversations' = conversations \o
                   << HumanTurn(<<"Yes">>, conversations[k].pdf, "yes"),
                      AiTurn(<<"Navigating to page ",
                               ToString(foundPages[1].page), ".">>,
                             conversations[k].pdf, "nav") >>]_vars

\* C12: a no reply appends the one human turn "No" and does not navigate:
\* currentPage, showPdfViewer, foundPages, selectedPdf and
\* isNewConversation are left as they are.
C12_NoDoesNotNavigate ==
    [][\A k \in 1..Len(conversations) :
          handlePageNavigation(k, "no") =>
              /\ conversations' = conversations \o
                   << HumanTurn(<<"No">>, conversations[k].pdf, "no") >>
              /\ UNCHANGED <<currentPage, showPdfViewer, foundPages,
                             selectedPdf, isNewConversation>>]_vars

\* C12 witness: a no reply was given to an offer that holds candidate pages
C12_Witness ==
    /\ last.op = "replyNo"
    /\ Len(foundPages) > 0
    /\ conversations[Len(conversations)].content = <<"No">>

\* C13: right after a reset (New Conversation or a document selection) the
\* page offer is absent: showPagePrompt is false and foundPages is empty.
C13_ResetDiscardsOffer ==
    [][resetStep => (~showPagePrompt' /\ foundPages' = <<>>)]_vars

\* the page prompt at index k has been answered: the turn after it is a
\* yes/no reply
offerAnswered(k) ==
    /\ k \in 1..(Len(conversations) - 1)
    /\ conversations[k].isPagePrompt
    /\ conversations[k + 1].kind \in {"yes", "no"}

\* C14: a reply leaves the Yes/No controls of the page prompt it answers
\* inactive, and no step makes the controls of an answered page prompt
\* active again while that turn stays in the log.
C14_OfferTerminal ==
    [][\A k \in 1..Len(conversations) :
          /\ \A r \in {"yes", "no"} :
                handlePageNavigation(k, r) => ~promptButtonsShown(k)'
          /\ (/\ offerAnswered(k)
              /\ k <= Len(conversations')
              /\ conversations'[k] = conversations[k])
             => ~promptButtonsShown(k)']_vars

\* the index of the latest page prompt of the log (0: none)
latestPrompt ==
    LET P == {k \in 1..Len(conversations) : conversations[k].isPagePrompt}
    IN IF P = {} THEN 0 ELSE CHOOSE k \in P : \A j \in P : j <= k

\* the pages of the response whose assistant turn precedes the page prompt
\* at index k
pagesOffered(k) ==
    (CHOOSE d \in QueryResponses :
        hasLocation(d) /\ d.response = conversations[k - 1].content).pages

\* C15: a located response replaces the pages of an offer that is still
\* open, a yes reply that navigates goes to the first page of the latest
\* response that opened an offer, and one reply closes the offer (no Yes/No
\* control stays active).
C15_LatestOfferWins ==
    [][/\ \A i \in 1..Len(queryReqs), data \in QueryResponses :
             (handleSubmitSuccess(i, data) /\ mounted /\ hasLocation(data))
                 => foundPages' = data.pages
       /\ \A k \in 1..Len(conversations), r \in {"yes", "no"} :
             handlePageNavigation(k, r) =>
                 /\ ~offerAwaiting'
                 /\ (r = "yes" /\ Len(foundPages) > 0) =>
                        currentPage' = pagesOffered(latestPrompt)[1].page]_vars

\* C15 witness: the offer of the response "see page 4" was open when the
\* response "see page 9" opened a second one, and the yes reply went to
\* page 9
C15_Witness ==
    /\ last.op = "replyYes"
    /\ Len(conversations) = 8
    /\ conversations[3].isPagePrompt
    /\ conversations[2].content = <<"see page 4">>
    /\ conversations[6].isPagePrompt
    /\ conversations[5].content = <<"see page 9">>
    /\ conversations[8].kind = "nav"
    /\ currentPage = 9

\* C17: a submit with an empty or whitespace-only query, or with no document
\* selected, issues no request and leaves loading, error, conversations,
\* isNewConversation and the input text unchanged, whether it comes from the
\* button or from the form.
C17_SubmitFailsFast ==
    [][((clickSubmit \/ formSubmit)
          /\ (Trim(query) = <<>> \/ selectedPdf = ""))
        => UNCHANGED <<queryReqs, loading, error, conversations,
                       isNewConversation, query>>]_vars

\* C17 witness: handleSubmit has just returned early on a query of blanks
\* with a document selected and an error on display
C17_Witness ==
    /\ last.op = "submitRejected"
    /\ query = <<" ">>
    /\ selectedPdf # ""
    /\ error # null
    /\ ~loading

\* C18: on a network that eventually answers or fails each request, every
\* submission that sets loading is followed by a state where its outcome has
\* been applied and loading is false again (or the component has been
\* unmounted).
C18_SubmissionCompletes ==
    (loading /\ mounted) ~> (~mounted \/ (~loading /\ queryReqs = <<>>))

\* C18 witness: the outcome of a submission has just been applied and the
\* submit control is free again
C18_Witness ==
    /\ last.op \in {"handleSubmitSuccess", "handleSubmitFailure"}
    /\ mounted
    /\ ~loading
    /\ queryReqs = <<>>
    /\ Len(conversations) >= 2

\* C20: a keystroke is in the state at once, so the request issued by a
\* submit carries the text of the most recent keystroke (what the textarea
\* shows), and that text is the human turn recorded when the request
\* succeeds.
C20_LatestKeystrokeSubmitted ==
    [][/\ \A text \in QueryTexts :
             setQuery(text) => (textareaValue' = text /\ query' = text)
       /\ query' = textareaValue'
       /\ Len(queryReqs') > Len(queryReqs) =>
             /\ queryReqs'[Len(queryReqs')].body.query = textareaValue
             /\ UNCHANGED <<query, textareaValue>>
       /\ \A i \in 1..Len(queryReqs), data \in QueryResponses :
             (handleSubmitSuccess(i, data) /\ mounted) =>
                 LET req == queryReqs[i]
                     h   == IF req.isNewConversation THEN 1
                            ELSE Len(req.conversations) + 1
                 IN /\ conversations'[h].role = "human"
                    /\ conversations'[h].content = req.body.query]_vars

\* C20 witness: after an exchange about the text "a" was recorded, further
\* keystrokes were made and the request just issued carries the last of
\* them, " b"
C20_Witness ==
    /\ last.op = "handleSubmit"
    /\ Len(conversations) >= 2
    /\ conversations[1].content = <<"a">>
    /\ queryReqs # <<>>
    /\ queryReqs[Len(queryReqs)].body.query = <<" ", "b">>
    /\ textareaValue = <<" ", "b">>

\* C16: New Conversation yields an empty log, isNewConversation = true and
\* no selected document from any state, and a second call right after the
\* first leaves conversations, isNewConversation, selectedPdf, foundPages,
\* currentPage, showPdfViewer and analysisResults as the first left them.
C16_NewConversationIdempotent ==
    [][toggleNewConversation =>
          /\ conversations' = <<>>
          /\ isNewConversation' = TRUE
          /\ selectedPdf' = ""
          /\ last.op \in {"toggleNewConversation",
                          "toggleNewConversationAgain"} =>
                UNCHANGED <<conversations, isNewConversation, selectedPdf,
                            foundPages, currentPage, showPdfViewer,
                            analysisResults>>]_vars

\* C16 witness: New Conversation has been called twice in a row while a
\* query and an analysis of the dropped document were still in flight
C16_Witness ==
    /\ last.op = "toggleNewConversationAgain"
    /\ conversations = <<>>
    /\ isNewConversation
    /\ selectedPdf = ""
    /\ queryReqs # <<>>
    /\ analyzeReqs # <<>>

\* every failing attempt puts its own message in the error slot
failureSetsItsMessage ==
    /\ \A i \in 1..Len(queryReqs), kind \in QueryFailures :
          (handleSubmitFailure(i, kind) /\ mounted) =>
              error' = "An error occurred while processing your query."
    /\ \A i \in 1..Len(analyzeReqs), kind \in AnalysisFailures :
          (analyzeDocumentFailure(i, kind) /\ mounted) =>
              error' = "Failed to analyze document"
    /\ \A closure \in PdfNames :
          (fetchPdfFilesFailure(closure) /\ mounted) =>
              error' = "Failed to fetch PDF files. Please try again later."

\* C19 as stated: a failing attempt replaces the error message with its
\* own, and once a query submission completes successfully error is null.
C19_NoErrorAfterSuccess ==
    [][/\ failureSetsItsMessage
       /\ \A i \in 1..Len(queryReqs), data \in QueryResponses :
             (handleSubmitSuccess(i, data) /\ mounted) => error' = null]_vars

\* C19 amended: a failing attempt (query, analysis or document list)
\* replaces the error message with its own; issuing a query submission
\* clears the error; the successful completion of a query leaves the error
\* slot as it is, so the message of an attempt that failed while the query
\* was in flight stays on display; a message appears only by a failure.
C19_ErrorSlot ==
    [][/\ failureSetsItsMessage
       /\ Len(queryReqs') > Len(queryReqs) => error' = null
       /\ \A i \in 1..Len(queryReqs), data \in QueryResponses :
             handleSubmitSuccess(i, data) => error' = error
       /\ (error' # error /\ error' # null) =>
             \/ \E i \in 1..Len(queryReqs), kind \in QueryFailures :
                   handleSubmitFailure(i, kind)
             \/ \E i \in 1..Len(analyzeReqs), kind \in AnalysisFailures :
                   analyzeDocumentFailure(i, kind)
             \/ \E closure \in PdfNames : fetchPdfFilesFailure(closure)]_vars

\* C19 witness: a query has just completed successfully and the message of
\* the analysis that failed while it was in flight is on display
C19_Witness ==
    /\ last.op = "handleSubmitSuccess"
    /\ mounted
    /\ ~loading
    /\ Len(conversations) >= 2
    /\ queryReqs = <<>>
    /\ error = "Failed to analyze document"

\* C21: the input is debounced: of a burst of keystrokes (one keystroke
\* step directly after another, no quiescence in between) only the end of
\* the burst updates the query state, so a keystroke that directly follows
\* a keystroke does not itself change query.
C21_Debounced ==
    [][(last.op = "setQuery" /\ \E text \in QueryTexts : setQuery(text))
          => query' = query]_vars

\* C22: in every reachable state, isNewConversation = true implies that
\* conversations is empty.
C22_NewMeansEmpty == isNewConversation => conversations = <<>>

\* C22 witness: a selection has reset a conversation that held a page
\* offer, with its query request still in flight
C22_Witness ==
    /\ last.op = "handlePdfSelect"
    /\ isNewConversation
    /\ conversations = <<>>
    /\ showPagePrompt
    /\ queryReqs # <<>>

\* C23: the completion of a list fetch never replaces a selected document:
\* it changes selectedPdf only if no document is selected when it
\* completes.
C23_FetchKeepsSelection ==
    [][\A closure \in PdfNames :
          (fetchPdfFilesSuccess(closure) /\ selectedPdf # "")
              => selectedPdf' = selectedPdf]_vars

\* C24: after every step, Home's selectedPdf equals QueryInput's
\* selectedPdf.
C24_HomeMirrorsSelection == inHome => homeSelectedPdf = selectedPdf

\* C24 witness: the completion of a list fetch started while nothing was
\* selected has just auto-selected the first document over the user's
\* selection of the second, in both components
C24_Witness ==
    /\ inHome
    /\ last.op = "fetchPdfFilesSuccess"
    /\ selectedPdf = "A.pdf"
    /\ homeSelectedPdf = "A.pdf"
    /\ Len(bgReqs) = 2
    /\ bgReqs[1] = "B.pdf"
    /\ bgReqs[2] = "A.pdf"

\* C26: once every background-image request has completed, the background
\* and isCustomImage are those of the response for the selected document,
\* or the default background with isCustomImage false if a fetch failed.
C26_BackgroundFollowsSelection ==
    (inHome /\ mounted /\ bgReqs = <<>> /\ homeSelectedPdf # "") =>
        \/ /\ backgroundImage = createObjectURL(homeSelectedPdf)
           /\ isCustomImage = (ImageType(homeSelectedPdf) = "custom")
        \/ /\ backgroundImage = DefaultBackground
           /\ ~isCustomImage

\* C25: whenever analysisResults is non-null, it is the response of an
\* analyze request whose pdf_name is the current selectedPdf.
C25_AnalysisOfSelected ==
    analysisResults # nullAnalysis => analysisResults.pdf_name = selectedPdf

\* C27: in the earlier versions with the locked selector, every turn of
\* conversations was produced by a query whose pdf_name is the currently
\* selected document.
C27_TurnsOfSelectedDocument ==
    \A k \in 1..Len(conversations) : conversations[k].pdf = selectedPdf

\* C28: in the earliest version at most one /api/query request is in
\* flight at any time: no form submit and no Enter key press issues a
\* request while loading is true, and one Enter key press issues at most
\* one request.
C28_SingleFlightEarliest ==
    [][/\ Len(queryReqs') <= 1
       /\ loading => Len(queryReqs') <= Len(queryReqs)
       /\ Len(queryReqs') <= Len(queryReqs) + 1]_vars

=============================================================================
